---- MODULE Spec2Model ----
(***************************************************************************)
(* A model of backend/main.py, the AMS FastAPI backend: the application    *)
(* object (routes, documentation routes, CORS middleware), its five        *)
(* handlers, the connections it serves concurrently, and the __main__      *)
(* block that picks the listening port from the environment.               *)
(*                                                                         *)
(* Three specifications share the variables:                               *)
(*   Spec / FairSpec  concurrent plain GET requests on several connections *)
(*   ClientSpec       one connection, every request shape (methods,        *)
(*                    Origin, preflight headers, cookies)                  *)
(*   BootSpec         the __main__ block under every bounded environment   *)
(***************************************************************************)
EXTENDS Integers, Sequences, FiniteSets, TLC

VARIABLES
    pc,        \* "boot" | "run" (uvicorn.run was called) | "failed" (start-up raised)
    environ,   \* os.environ: a function from the names that are set to their values
    port,      \* the port handed to uvicorn.run, NoPort before that
    clock,     \* datetime.utcnow(), in microseconds after a whole second
    conns,     \* per connection: idle, a pending request, or a request with its response
    solo       \* history: per path, the response a GET gets as the only request ever made

vars == <<pc, environ, port, clock, conns, solo>>

-----------------------------------------------------------------------------
(* Bounds *)

MaxConns == 2       \* connections open at once
MaxClock == 1       \* the clock runs from 0 to MaxClock microseconds
MaxLen == 2         \* longest value of an environment variable, in characters

-----------------------------------------------------------------------------
(* Values *)

None == "None"
DefaultPort == 8000
MicrosPerSecond == 1000000

\* A Python float literal, kept apart from the int of the same value.
FloatLit(whole, frac) == [whole |-> whole, frac |-> frac]

-----------------------------------------------------------------------------
(* datetime *)

\* A timestamp cached by the previous call instead of read per request.
utcnow_cached == IF clock > 0 THEN clock - 1 ELSE clock

utcnow == clock

\* datetime.isoformat(): "<date>T<time>", followed by ".ffffff" only when the
\* microsecond is not zero. The text is kept as its numeric fields: the whole
\* seconds, then the six-digit fraction when it is printed.
isoformat(t) ==
    LET s == t \div MicrosPerSecond
        us == t % MicrosPerSecond
    IN  IF us = 0 THEN <<s>> ELSE <<s, us>>

\* The text is well-formed ISO-8601: a time, and either no fraction or a
\* fraction of six digits that are not all zero.
IsIsoText(txt) ==
    /\ Len(txt) \in {1, 2}
    /\ txt[1] \in Nat
    /\ Len(txt) = 2 => txt[2] \in 1..(MicrosPerSecond - 1)

\* datetime.fromisoformat(): the instant an ISO-8601 reader makes of the text.
fromisoformat(txt) ==
    IF Len(txt) = 1 THEN txt[1] * MicrosPerSecond
    ELSE txt[1] * MicrosPerSecond + txt[2]

-----------------------------------------------------------------------------
(* The application object: app = FastAPI(...) *)

app_title == "AMS - Agent Management System"
app_version == "1.0.0"
docs_url == "/api/docs"
redoc_url == "/api/redoc"
\* The two FastAPI constructor arguments main.py leaves at their defaults.
openapi_url == "/openapi.json"
swagger_ui_oauth2_redirect_url == "/docs/oauth2-redirect"

-----------------------------------------------------------------------------
(* The handlers *)

root ==
    [ message |-> "Welcome to AMS - Agent Management System",
      version |-> "1.0.0",
      description |-> "B2B SaaS platform for enterprise AI agent fleet management",
      status |-> "operational",
      timestamp |-> isoformat(utcnow),
      endpoints |-> [docs |-> "/api/docs", health |-> "/health", api |-> "/api/v1"] ]

health_check ==
    [ status |-> "healthy",
      timestamp |-> isoformat(utcnow),
      service |-> "ams-backend",
      version |-> "1.0.0" ]

\* api_status reporting "busy" once a response is waiting to be read: shared state.
api_status_busy ==
    [ api_version |-> "v1",
      status |-> IF \E c \in DOMAIN conns : conns[c].state = "done"
                 THEN "busy" ELSE "operational",
      features |-> [ agent_management |-> "coming_soon",
                     observability |-> "coming_soon",
                     governance |-> "coming_soon",
                     analytics |-> "coming_soon" ],
      timestamp |-> isoformat(utcnow) ]

api_status ==
    [ api_version |-> "v1",
      status |-> "operational",
      features |-> [ agent_management |-> "coming_soon",
                     observability |-> "coming_soon",
                     governance |-> "coming_soon",
                     analytics |-> "coming_soon" ],
      timestamp |-> isoformat(utcnow) ]

\* list_agents counting the requests served so far: a module-level counter.
list_agents_counting ==
    [ agents |-> <<>>,
      total |-> Cardinality({c \in DOMAIN conns : conns[c].state = "done"}),
      message |-> "Agent management coming soon - Task 2 in progress" ]

list_agents ==
    [ agents |-> <<>>,
      total |-> 0,
      message |-> "Agent management coming soon - Task 2 in progress" ]

\* get_metrics reporting the connections being served as active agents.
get_metrics_live ==
    [ metrics |-> [ active_agents |-> Cardinality({c \in DOMAIN conns : conns[c].state # "idle"}) - 1,
                    total_tasks |-> 0,
                    success_rate |-> FloatLit(0, 0),
                    cost_savings |-> FloatLit(0, 0) ],
      message |-> "Metrics dashboard coming soon - Task 8 in progress" ]

get_metrics ==
    [ metrics |-> [ active_agents |-> 0,
                    total_tasks |-> 0,
                    success_rate |-> FloatLit(0, 0),
                    cost_savings |-> FloatLit(0, 0) ],
      message |-> "Metrics dashboard coming soon - Task 8 in progress" ]

-----------------------------------------------------------------------------
(* Routing: the routes FastAPI registers on the app *)

UserHandlers == {"root", "health_check", "api_status", "list_agents", "get_metrics"}

\* The @app.get(...) decorators, in the order of the file.
user_routes ==
    { [path |-> "/", methods |-> {"GET"}, endpoint |-> "root"],
      [path |-> "/health", methods |-> {"GET"}, endpoint |-> "health_check"],
      [path |-> "/api/v1/status", methods |-> {"GET"}, endpoint |-> "api_status"],
      [path |-> "/api/v1/agents", methods |-> {"GET"}, endpoint |-> "list_agents"],
      [path |-> "/api/v1/metrics", methods |-> {"GET"}, endpoint |-> "get_metrics"] }

\* The documentation routes the FastAPI constructor adds for its *_url arguments.
docs_routes ==
    { [path |-> openapi_url, methods |-> {"GET"}, endpoint |-> "openapi"],
      [path |-> docs_url, methods |-> {"GET"}, endpoint |-> "swagger_ui_html"],
      [path |-> swagger_ui_oauth2_redirect_url, methods |-> {"GET"},
       endpoint |-> "swagger_ui_redirect"],
      [path |-> redoc_url, methods |-> {"GET"}, endpoint |-> "redoc_html"] }

\* The route table with the metrics route never registered.
routes_without_metrics ==
    docs_routes \cup {r \in user_routes : r.endpoint # "get_metrics"}

routes == docs_routes \cup user_routes

\* Calling a route's endpoint: the body it returns.
call(endpoint) ==
    CASE endpoint = "root" -> root
      [] endpoint = "health_check" -> health_check
      [] endpoint = "api_status" -> api_status
      [] endpoint = "list_agents" -> list_agents
      [] endpoint = "get_metrics" -> get_metrics
      [] endpoint = "openapi" ->
            [openapi |-> "3", info |-> [title |-> app_title, version |-> app_version]]
      [] endpoint = "swagger_ui_html" -> [html |-> "swagger-ui"]
      [] endpoint = "swagger_ui_redirect" -> [html |-> "oauth2-redirect"]
      [] endpoint = "redoc_html" -> [html |-> "redoc"]

NoCors == [acao |-> None, acac |-> None, acam |-> {}, acah |-> {}, vary |-> None]

\* The router with no default for an unmatched path: it falls through to root.
router_fallthrough(request) ==
    [status |-> 200, endpoint |-> "root", body |-> root, cors |-> NoCors]

\* The router: the route whose path and method match runs its endpoint; a path
\* that matches with another method gets 405, a path no route has gets 404. Both
\* defaults are the framework's: main.py registers no exception handler.
router(request) ==
    LET byPath == {r \in routes : r.path = request.path}
        match == {r \in byPath : request.method \in r.methods}
    IN  IF match # {}
        THEN LET r == CHOOSE x \in match : TRUE
             IN  [status |-> 200, endpoint |-> r.endpoint, body |-> call(r.endpoint),
                  cors |-> NoCors]
        ELSE IF byPath # {}
        THEN [status |-> 405, endpoint |-> None,
              body |-> [detail |-> "Method Not Allowed"], cors |-> NoCors]
        ELSE [status |-> 404, endpoint |-> None,
              body |-> [detail |-> "Not Found"], cors |-> NoCors]

-----------------------------------------------------------------------------
(* app.add_middleware(CORSMiddleware, ...) *)

\* allow_origins as "Configure for production" would leave it: one origin.
allow_origins_production == {"https://app.example"}

allow_origins == {"*"}
allow_credentials == TRUE
allow_methods == {"*"}
allow_headers == {"*"}

is_allowed_origin(origin) == "*" \in allow_origins \/ origin \in allow_origins
is_allowed_method(method) == "*" \in allow_methods \/ method \in allow_methods
is_allowed_header(header) == "*" \in allow_headers \/ header \in allow_headers

\* The answer to a preflight (OPTIONS with Origin and
\* Access-Control-Request-Method): 200 when origin, method and headers are all
\* allowed, else 400 naming what is not. The router is never reached.
preflight_response(request) ==
    LET okOrigin == is_allowed_origin(request.origin)
        okMethod == is_allowed_method(request.acrm)
        okHeaders == \A h \in request.acrh : is_allowed_header(h)
        explicit == "*" \notin allow_origins \/ allow_credentials
        cors == [ acao |-> IF ~okOrigin THEN None
                           ELSE IF explicit THEN request.origin ELSE "*",
                  acac |-> IF allow_credentials THEN "true" ELSE None,
                  acam |-> allow_methods,
                  acah |-> IF "*" \in allow_headers THEN request.acrh ELSE allow_headers,
                  vary |-> IF explicit THEN "Origin" ELSE None ]
    IN  IF okOrigin /\ okMethod /\ okHeaders
        THEN [status |-> 200, endpoint |-> "preflight", body |-> [text |-> "OK"],
              cors |-> cors]
        ELSE [status |-> 400, endpoint |-> "preflight",
              body |-> [text |-> "Disallowed CORS"], cors |-> cors]

\* A request with an Origin that is no preflight: the router's response, with
\* the allow-origin headers added when the origin is allowed.
simple_response(request) ==
    LET inner == router(request)
        all == "*" \in allow_origins
        cors == [ acao |-> IF all /\ request.cookie THEN request.origin
                           ELSE IF all THEN "*"
                           ELSE IF is_allowed_origin(request.origin) THEN request.origin
                           ELSE None,
                  acac |-> IF allow_credentials THEN "true" ELSE None,
                  acam |-> {},
                  acah |-> {},
                  vary |-> IF (all /\ request.cookie) \/ (~all /\ is_allowed_origin(request.origin))
                           THEN "Origin" ELSE None ]
    IN  [inner EXCEPT !.cors = cors]

\* The application as the server calls it: the CORS middleware around the router.
app(request) ==
    IF request.origin = None THEN router(request)
    ELSE IF request.method = "OPTIONS" /\ request.acrm # None
    THEN preflight_response(request)
    ELSE simple_response(request)

-----------------------------------------------------------------------------
(* Requests and connections *)

Conns == 1..MaxConns

Paths ==
    {r.path : r \in routes} \cup
    {"/", "/health", "/api/v1/status", "/api/v1/agents", "/api/v1/metrics",
     "/api/v1", "/nope"}

Origins == {"https://app.example", "https://other.example"}
Methods == {"GET", "POST", "OPTIONS"}
RequestedMethods == {"GET", "DELETE"}
RequestedHeaders == {"x-api-key"}

\* A GET with no Origin header: curl, a monitor, the browser's address bar.
PlainGet(path) ==
    [method |-> "GET", path |-> path, origin |-> None, acrm |-> None, acrh |-> {},
     cookie |-> FALSE]

\* The paths of the concurrent plain GETs: the handler routes, what the root
\* response advertises, and a path nothing is registered at.
PlainPaths ==
    {r.path : r \in user_routes} \cup {docs_url, "/api/v1", "/nope"}

PlainGets == {PlainGet(p) : p \in PlainPaths}

\* Every request shape a browser or another client sends.
ClientRequests ==
    [method : Methods, path : Paths, origin : Origins \cup {None},
     acrm : RequestedMethods \cup {None}, acrh : SUBSET RequestedHeaders,
     cookie : BOOLEAN]

IsPreflight(request) ==
    request.origin # None /\ request.method = "OPTIONS" /\ request.acrm # None

\* A response without its timestamp field.
StripTimestamp(response) ==
    [response EXCEPT
        !.body = [f \in DOMAIN response.body \ {"timestamp"} |-> response.body[f]]]

Idle == [state |-> "idle"]

-----------------------------------------------------------------------------
(* The __main__ block *)

EnvNames == {"PORT", "port"}
Chars == {"0", "8", " ", "-", "x"}
DigitChars == <<"0", "1", "2", "3", "4", "5", "6", "7", "8", "9">>

RECURSIVE StringsUpTo(_)
StringsUpTo(n) ==
    IF n = 0 THEN {<<>>}
    ELSE LET shorter == StringsUpTo(n - 1)
         IN  shorter \cup {Append(s, ch) : s \in shorter, ch \in Chars}

EnvValues == StringsUpTo(MaxLen)

Environments ==
    UNION {[names -> EnvValues] : names \in SUBSET EnvNames}

IsSpace(ch) == ch = " "
IsDigit(ch) == \E i \in 1..Len(DigitChars) : DigitChars[i] = ch
DigitValue(ch) == (CHOOSE i \in 1..Len(DigitChars) : DigitChars[i] = ch) - 1

RECURSIVE lstrip(_)
lstrip(s) == IF s # <<>> /\ IsSpace(Head(s)) THEN lstrip(Tail(s)) ELSE s

RECURSIVE rstrip(_)
rstrip(s) ==
    IF s # <<>> /\ IsSpace(s[Len(s)]) THEN rstrip(SubSeq(s, 1, Len(s) - 1)) ELSE s

RECURSIVE DecimalValue(_)
DecimalValue(ds) ==
    IF ds = <<>> THEN 0
    ELSE 10 * DecimalValue(SubSeq(ds, 1, Len(ds) - 1)) + DigitValue(ds[Len(ds)])

\* int(str): surrounding whitespace is dropped, one sign is allowed, and what is
\* left must be decimal digits, at least one, with single underscores allowed
\* between digits; anything else raises ValueError. The result is <<value>>, or
\* <<>> for ValueError.
py_int_str(text) ==
    LET t == rstrip(lstrip(text))
        signed == t # <<>> /\ Head(t) \in {"-", "+"}
        ds == IF signed THEN Tail(t) ELSE t
        wellFormed ==
            /\ ds # <<>>
            /\ \A i \in 1..Len(ds) :
                  \/ IsDigit(ds[i])
                  \/ /\ ds[i] = "_"
                     /\ 1 < i /\ i < Len(ds)
                     /\ IsDigit(ds[i - 1]) /\ IsDigit(ds[i + 1])
    IN  IF wellFormed
        THEN <<(IF signed /\ Head(t) = "-" THEN -1 ELSE 1)
                  * DecimalValue(SelectSeq(ds, IsDigit))>>
        ELSE <<>>

\* The port read from the lower-case name.
port_from_environ_lowercase(env) ==
    IF "port" \in DOMAIN env THEN py_int_str(env["port"]) ELSE <<DefaultPort>>

\* int(os.getenv("PORT", 8000)): int of the text when PORT is set, of the int
\* 8000 when it is not.
port_from_environ(env) ==
    IF "PORT" \in DOMAIN env THEN py_int_str(env["PORT"]) ELSE <<DefaultPort>>

\* port = int(os.getenv("PORT", 8000)); uvicorn.run(..., port=port)
Main ==
    /\ pc = "boot"
    /\ LET p == port_from_environ(environ)
       IN  \/ /\ p # <<>>
              /\ pc' = "run"
              /\ port' = p
           \/ /\ p = <<>>
              /\ pc' = "failed"
              /\ port' = <<>>
    /\ UNCHANGED <<environ, clock, conns, solo>>

-----------------------------------------------------------------------------
(* Serving *)

\* A request arrives on an idle connection.
Receive(c, request) ==
    /\ pc = "run"
    /\ conns[c].state = "idle"
    /\ conns' = [conns EXCEPT ![c] = [state |-> "pending", request |-> request]]
    /\ UNCHANGED <<pc, environ, port, clock, solo>>

\* A handler that runs only while no other request is being handled: a lock
\* held from the arrival of a request to its response.
HandleLocked(c) ==
    /\ pc = "run"
    /\ conns[c].state = "pending"
    /\ \A d \in Conns : d < c => conns[d].state # "pending"
    /\ conns' = [conns EXCEPT ![c] =
                    [state |-> "done", request |-> conns[c].request,
                     response |-> app(conns[c].request), at |-> clock]]
    /\ UNCHANGED <<pc, environ, port, clock, solo>>

\* The event loop runs the application on a pending request. The handlers are
\* coroutines without an await: each runs to its return in one step.
Handle(c) ==
    /\ pc = "run"
    /\ conns[c].state = "pending"
    /\ conns' = [conns EXCEPT ![c] =
                    [state |-> "done", request |-> conns[c].request,
                     response |-> app(conns[c].request), at |-> clock]]
    /\ UNCHANGED <<pc, environ, port, clock, solo>>

\* The client has read the response; the connection takes the next request.
Close(c) ==
    /\ conns[c].state = "done"
    /\ conns' = [conns EXCEPT ![c] = Idle]
    /\ UNCHANGED <<pc, environ, port, clock, solo>>

\* Time passes.
Tick ==
    /\ clock < MaxClock
    /\ clock' = clock + 1
    /\ UNCHANGED <<pc, environ, port, conns, solo>>

-----------------------------------------------------------------------------
(* Specifications *)

\* The app as imported and served with the default environment.
Init ==
    /\ pc = "run"
    /\ environ = [n \in {} |-> <<>>]
    /\ port = <<DefaultPort>>
    /\ clock = 0
    /\ conns = [c \in Conns |-> Idle]
    /\ solo = [p \in Paths |-> StripTimestamp(app(PlainGet(p)))]

Next ==
    \/ \E c \in Conns, request \in PlainGets : Receive(c, request)
    \/ \E c \in Conns : Handle(c)
    \/ \E c \in Conns : Close(c)
    \/ Tick

Spec == Init /\ [][Next]_vars

\* The event loop runs every ready handler.
FairSpec == Spec /\ \A c \in Conns : WF_vars(Handle(c))

\* The one connection of the client: the first.
ClientConn == CHOOSE c \in Conns : \A d \in Conns : c <= d

ClientNext ==
    \/ \E request \in ClientRequests : Receive(ClientConn, request)
    \/ Handle(ClientConn)
    \/ Close(ClientConn)

ClientSpec == Init /\ [][ClientNext]_vars

\* python main.py, under every environment within the bounds.
BootInit ==
    /\ pc = "boot"
    /\ environ \in Environments
    /\ port = <<>>
    /\ clock = 0
    /\ conns = [c \in Conns |-> Idle]
    /\ solo = [p \in Paths |-> StripTimestamp(app(PlainGet(p)))]

BootSpec == BootInit /\ [][Main]_vars

-----------------------------------------------------------------------------
(* Vocabulary of the properties *)

Done(c) == conns[c].state = "done"
Pending(c) == conns[c].state = "pending"
Req(c) == conns[c].request
Resp(c) == conns[c].response

\* The routes that run a handler of main.py.
HandlerRoutes == {r \in routes : r.endpoint \in UserHandlers}
HandlerPaths == {r.path : r \in HandlerRoutes}
RegisteredPaths == {r.path : r \in routes}

\* The spec's interface table: the fields of each route's body.
InterfaceTable ==
    "/" :> {"message", "version", "status", "timestamp", "endpoints"} @@
    "/health" :> {"status", "timestamp", "service", "version"} @@
    "/api/v1/status" :> {"api_version", "status", "features", "timestamp"} @@
    "/api/v1/agents" :> {"agents", "total", "message"} @@
    "/api/v1/metrics" :> {"metrics", "message"}

\* A GET of each path of the interface table is answered 200 by a handler of
\* main.py with a body holding the table's fields.
TableRoutesAnswer ==
    /\ DOMAIN InterfaceTable \subseteq HandlerPaths
    /\ \A c \in Conns :
          Done(c) /\ Req(c).method = "GET" /\ Req(c).path \in DOMAIN InterfaceTable =>
             /\ Resp(c).status = 200
             /\ Resp(c).endpoint \in UserHandlers
             /\ InterfaceTable[Req(c).path] \subseteq DOMAIN Resp(c).body

\* Any later plain GET is answered as it was before any request was made.
AnswersAsBefore ==
    \A p \in Paths : StripTimestamp(app(PlainGet(p))) = solo[p]

-----------------------------------------------------------------------------
(* C1 *)

\* C1, as stated: the router maps six fixed paths to six handlers, and a GET of
\* each route of the interface table returns 200 with the table's fields.
C1_Original ==
    /\ Cardinality(HandlerPaths) = 6
    /\ Cardinality({r.endpoint : r \in HandlerRoutes}) = 6
    /\ TableRoutesAnswer

\* C1, amended: the router maps five fixed paths to five handlers (the five of
\* the interface table, one handler each), and a GET of each returns 200 with a
\* body holding the fields the table lists for it.
C1_Amended ==
    /\ Cardinality(HandlerPaths) = 5
    /\ Cardinality({r.endpoint : r \in HandlerRoutes}) = 5
    /\ HandlerPaths = DOMAIN InterfaceTable
    /\ TableRoutesAnswer

C1_Witness ==
    \E c, d \in Conns :
        /\ Done(c) /\ Req(c).path = "/api/v1/status" /\ Resp(c).status = 200
        /\ Done(d) /\ Req(d).path = "/api/v1/metrics" /\ Resp(d).status = 200

-----------------------------------------------------------------------------
(* C2 *)

HasTimestamp(c) ==
    /\ "timestamp" \in DOMAIN Resp(c).body
    /\ IsIsoText(Resp(c).body.timestamp)
    /\ fromisoformat(Resp(c).body.timestamp) = conns[c].at

\* C2, as stated: every successful response of every route (root, health,
\* status, agents, metrics) has a timestamp field, the ISO-8601 rendering of the
\* clock when the request was handled.
C2_Original ==
    \A c \in Conns : Done(c) /\ Resp(c).endpoint \in UserHandlers => HasTimestamp(c)

\* C2, amended: every response of the root, health and status routes has a
\* timestamp field, the ISO-8601 rendering of the clock when the request was
\* handled; the responses of the agents and metrics routes have no timestamp
\* field.
C2_Amended ==
    \A c \in Conns :
        /\ Done(c) /\ Resp(c).endpoint \in {"root", "health_check", "api_status"} =>
              HasTimestamp(c)
        /\ Done(c) /\ Resp(c).endpoint \in {"list_agents", "get_metrics"} =>
              "timestamp" \notin DOMAIN Resp(c).body

C2_Witness ==
    \E c, d \in Conns :
        /\ Done(c) /\ Resp(c).endpoint = "health_check" /\ conns[c].at > 0
        /\ Done(d) /\ Resp(d).endpoint = "list_agents"

-----------------------------------------------------------------------------
(* C3 *)

\* C3: after any sequence of requests, a GET of /api/v1/agents returns agents
\* as the empty sequence and total equal to 0.
C3_AgentsEmpty ==
    \A c \in Conns :
        Done(c) /\ Req(c).method = "GET" /\ Req(c).path = "/api/v1/agents" =>
            /\ Resp(c).status = 200
            /\ Resp(c).body.agents = <<>>
            /\ Resp(c).body.total = 0

C3_Witness ==
    \E c, d \in Conns :
        /\ Done(c) /\ Req(c).path = "/api/v1/agents"
        /\ Done(d) /\ Req(d).path = "/api/v1/metrics" /\ conns[d].at < conns[c].at

-----------------------------------------------------------------------------
(* C4 *)

IsZeroFloat(x) == x = FloatLit(0, 0)

\* C4: on every GET of /api/v1/metrics, whatever came before, active_agents and
\* total_tasks are 0 and success_rate and cost_savings are 0.0.
C4_MetricsZero ==
    \A c \in Conns :
        Done(c) /\ Req(c).method = "GET" /\ Req(c).path = "/api/v1/metrics" =>
            /\ Resp(c).status = 200
            /\ Resp(c).body.metrics.active_agents = 0
            /\ Resp(c).body.metrics.total_tasks = 0
            /\ IsZeroFloat(Resp(c).body.metrics.success_rate)
            /\ IsZeroFloat(Resp(c).body.metrics.cost_savings)

C4_Witness ==
    \E c, d \in Conns :
        /\ Done(c) /\ Req(c).path = "/api/v1/metrics"
        /\ c # d /\ conns[d].state # "idle"

-----------------------------------------------------------------------------
(* C5 *)

FrameworkDefault(c) ==
    /\ Resp(c).status \notin 200..299
    /\ Resp(c).endpoint = None
    /\ AnswersAsBefore

\* C5, as stated: a request to any path that is not one of the fixed routes gets
\* a non-2xx status from the framework default, not from a handler, and the
\* service answers later requests as before.
C5_Original ==
    \A c \in Conns : Done(c) /\ Req(c).path \notin HandlerPaths => FrameworkDefault(c)

\* C5, amended: a request, other than a CORS preflight, to any path that is
\* neither one of the five handler routes nor one of the documentation routes
\* registered on the app gets a non-2xx status from the framework default, not
\* from a handler, and the service answers later requests as before.
C5_Amended ==
    \A c \in Conns :
        Done(c) /\ ~IsPreflight(Req(c)) /\ Req(c).path \notin RegisteredPaths =>
            FrameworkDefault(c)

C5_Witness ==
    \E c \in Conns :
        /\ Done(c) /\ Req(c).path = "/nope" /\ Req(c).method = "POST"
        /\ Req(c).origin # None /\ Resp(c).status = 404

-----------------------------------------------------------------------------
(* C6 *)

\* C6: in any interleaving of concurrent requests, a response without its
\* timestamp depends on the path alone and is the response the request gets as
\* the only request ever made.
C6_Independent ==
    \A c \in Conns : Done(c) => StripTimestamp(Resp(c)) = solo[Req(c).path]

C6_Witness ==
    \E c, d \in Conns :
        /\ Done(c) /\ Done(d) /\ c # d
        /\ Req(c).path = "/api/v1/status" /\ Req(d).path = "/api/v1/status"
        /\ conns[c].at # conns[d].at

-----------------------------------------------------------------------------
(* C7 *)

PortSet == "PORT" \in DOMAIN environ

\* C7, as stated: PORT set, the server listens on its integer value; PORT
\* unset, on 8000.
C7_Original ==
    pc # "boot" =>
        /\ PortSet => pc = "run" /\ port = py_int_str(environ["PORT"]) /\ port # <<>>
        /\ ~PortSet => pc = "run" /\ port = <<8000>>

\* C7, amended: PORT unset, uvicorn.run is called with port 8000; PORT set to a
\* text int() accepts, with that integer; PORT set to a text int() rejects (the
\* empty text, a text that is no number), start-up raises and uvicorn.run is
\* never called. No other variable changes the port.
C7_Amended ==
    pc # "boot" =>
        /\ ~PortSet => pc = "run" /\ port = <<8000>>
        /\ PortSet /\ py_int_str(environ["PORT"]) # <<>> =>
              pc = "run" /\ port = py_int_str(environ["PORT"])
        /\ PortSet /\ py_int_str(environ["PORT"]) = <<>> =>
              pc = "failed" /\ port = <<>>
        /\ PortSet /\ environ["PORT"] = <<"8", "0">> => port = <<80>>
        /\ PortSet /\ environ["PORT"] = <<" ", "8">> => port = <<8>>
        /\ PortSet /\ environ["PORT"] \in {<<>>, <<"x">>, <<"8", "x">>, <<"-">>} =>
              pc = "failed"

C7_Witness ==
    /\ pc = "run" /\ PortSet /\ environ["PORT"] = <<"8", "0">>
    /\ "port" \in DOMAIN environ /\ environ["port"] = <<"8">>

-----------------------------------------------------------------------------
(* C8 *)

OriginAllowedBy(c) == Resp(c).cors.acao \in {"*", Req(c).origin}

-----------------------------------------------------------------------------
(* C9 *)

\* C9: every request that reaches a handler eventually gets its response,
\* however many others are in flight; a pending request never waits on another
\* (its handler can always run); and a response, once given, is the only one.
C9_Completes ==
    /\ \A c \in Conns : Pending(c) ~> Done(c)
    /\ [](\A c \in Conns : Pending(c) => ENABLED Handle(c))
    /\ [][\A c \in Conns : Done(c) /\ conns'[c].state = "done" => conns'[c] = conns[c]]_vars

C9_Witness ==
    \E c, d \in Conns : Done(c) /\ Pending(d) /\ c > d

-----------------------------------------------------------------------------
(* C10 *)

AdvertisedPaths == {root.endpoints[k] : k \in DOMAIN root.endpoints}

\* C10: every path the root response advertises in its endpoints map is served:
\* a GET of it returns 200.
C10_AdvertisedServed ==
    \A c \in Conns :
        Done(c) /\ Req(c).method = "GET" /\ Req(c).path \in AdvertisedPaths =>
            Resp(c).status = 200

====
